---- MODULE Spec2Model ----
(***************************************************************************)
(* gmail-label-counts.js: the inbox label scan.  One run of the program is *)
(* listInboxLabelCounts: load the label names, obtain the working set of   *)
(* thread identifiers (cached list or remote enumeration), scan the        *)
(* per-thread cache, fetch what the cache does not settle through a        *)
(* p-limit pool, count the labels, print the report and two query counts.  *)
(* The disk (.cache) survives from one run to the next.                    *)
(***************************************************************************)
EXTENDS Integers, Sequences, FiniteSets, TLC

(* ------------------------------ bounds -------------------------------- *)
NumThreads == 1
MaxInbox == 1
WideThreads == 2
WideInbox == 2
MaxRuns == 2
PageSize == 1
MaxPages == 2
MaxFaults == 4
PoolSize == 4

(* ------------------------- program constants -------------------------- *)
Concurrency == 3
Retries == 3
DelayUnit == 1000
RateLimited == 429
DelayBase == 4

ThreadIds == 1..NumThreads
WideThreadIds == 1..WideThreads
LabelIds == {"INBOX", "L_A", "L_B"}
Undefined == "undefined"

(* ------------------------------ values -------------------------------- *)
\* A JavaScript value found where a labelIds array is expected.
Arr(s) == [tag |-> "array", items |-> s]
Undef == [tag |-> "undefined", items |-> <<>>]
Str == [tag |-> "string", items |-> <<>>]
IsArray(v) == v.tag = "array"
Truthy(v) == v.tag # "undefined"

LabelLists == {<<"INBOX", "L_A">>, <<"INBOX", "L_B">>}
RemoteLabelVals == {Undef, Str} \cup {Arr(l) : l \in LabelLists}
Unknown == [tag |-> "unknown", items |-> <<>>]

\* The content of .cache/thread-<id>.json.
NoFile == [kind |-> "absent", labelIds |-> Undef, cachedAt |-> 0]
BadFile == [kind |-> "malformed", labelIds |-> Undef, cachedAt |-> 0]
Entry(v, at) == [kind |-> "json", labelIds |-> v, cachedAt |-> at]
InitialFiles ==
    {NoFile, BadFile, Entry(Str, 0), Entry(Arr(<<>>), 0),
     Entry(Arr(<<"INBOX", "L_A">>), 0)}

\* The content of .cache/inbox-thread-ids.json.
IdsAbsent == [kind |-> "absent", tag |-> "null", ids |-> <<>>]
IdsMalformed == [kind |-> "malformed", tag |-> "null", ids |-> <<>>]
IdsNull == [kind |-> "json", tag |-> "null", ids |-> <<>>]
IdsObject == [kind |-> "json", tag |-> "object", ids |-> <<>>]
IdsArray(s) == [kind |-> "json", tag |-> "array", ids |-> s]

SeqsUpTo(S, n) == UNION {[1..k -> S] : k \in 0..n}
InboxLists == SeqsUpTo(ThreadIds, MaxInbox)
WideInboxLists == SeqsUpTo(WideThreadIds, WideInbox)

Range(s) == {s[i] : i \in DOMAIN s}

\* Label names the account may bind; localeCompare orders them by NameRank.
NameBindings ==
    {[l \in LabelIds |-> IF l = "INBOX" THEN "INBOX" ELSE Undefined],
     [l \in LabelIds |-> CASE l = "INBOX" -> "INBOX"
                           [] l = "L_A" -> "Work"
                           [] OTHER -> "Home"],
     [l \in LabelIds |-> CASE l = "INBOX" -> "INBOX"
                           [] l = "L_A" -> "Work"
                           [] OTHER -> Undefined]}
NoBindings == [l \in LabelIds |-> Undefined]

VARIABLES
    idsFile,        \* disk: the thread-ID list cache
    cache,          \* disk: the per-thread metadata cache
    remoteInbox,    \* remote: the threads of label:inbox, once observed
    remoteLabels,   \* remote: labelIds of each thread's first message
    remoteNames,    \* remote: the account's label id -> name list
    run,            \* number of the current run of the program
    pc,             \* position of listInboxLabelCounts
    labelIdToName,  \* loadLabelMaps' result
    threads,        \* the working set (ids of getInboxThreads' result)
    listed,         \* getInboxThreads: the ids accumulated so far
    listCalls,      \* remote label:inbox list requests of this run
    toFetch,        \* phase 1: needs-fetch
    labelResults,   \* phase 1 and 2: per-thread results
    counters,       \* validCached, invalidOrMissing, fetched, usedCache, usedApi
    tasks,          \* phase 2: one p-limit task per toFetch element
    labelCounts,    \* phase 3: the Label Count Table, in insertion order
    out,            \* report lines printed by this run
    warns,          \* console.warn calls of this run (a bag)
    query,          \* countThreadsMatchingQuery: pages requested so far
    hist            \* what earlier steps and runs did (for the properties)

vars == <<idsFile, cache, remoteInbox, remoteLabels, remoteNames, run, pc,
          labelIdToName, threads, listed, listCalls, toFetch, labelResults,
          counters, tasks, labelCounts, out, warns, query, hist>>

disk == <<idsFile, cache>>
remote == <<remoteInbox, remoteLabels, remoteNames>>


(* ------------------------------ helpers ------------------------------- *)
Min(a, b) == IF a < b THEN a ELSE b

\* obj[key] of a plain object built from the label list.
Lookup(map, key) == IF key \in DOMAIN map THEN map[key] ELSE Undefined

Warning(kind, id) == [kind |-> kind, id |-> id]
AddWarn(bag, w) ==
    IF w \in DOMAIN bag THEN [bag EXCEPT ![w] = @ + 1] ELSE bag @@ (w :> 1)
WarnCount(bag, w) == IF w \in DOMAIN bag THEN bag[w] ELSE 0
NoWarns == [w \in {} |-> 0]

RECURSIVE SumOver(_, _)
SumOver(f, S) ==
    IF S = {} THEN 0
    ELSE LET x == CHOOSE y \in S : TRUE IN f[x] + SumOver(f, S \ {x})

(* ------------------------- the two disk caches ------------------------ *)
\* getCachedInboxThreadIds taking an empty list for no list.
getCachedInboxThreadIds_EmptyIsNull(file) ==
    CASE file.kind = "absent" -> [value |-> IdsNull, warned |-> FALSE]
      [] file.kind = "malformed" -> [value |-> IdsNull, warned |-> TRUE]
      [] file.tag = "array" /\ file.ids = <<>> -> [value |-> IdsNull, warned |-> FALSE]
      [] OTHER -> [value |-> file, warned |-> FALSE]

\* getCachedInboxThreadIds: the parsed file, or null when the file is absent
\* or does not parse (with a warning).
getCachedInboxThreadIds(file) ==
    CASE file.kind = "absent" -> [value |-> IdsNull, warned |-> FALSE]
      [] file.kind = "malformed" -> [value |-> IdsNull, warned |-> TRUE]
      [] OTHER -> [value |-> file, warned |-> FALSE]

saveCachedInboxThreadIds(ids) == IdsArray(ids)

\* getCachedThread: JSON.parse of the file (it throws on a file that does not
\* parse), or null when there is no file.
getCachedThread(c, threadId) ==
    CASE c[threadId].kind = "absent" -> [threw |-> FALSE, labelIds |-> Undef]
      [] c[threadId].kind = "malformed" -> [threw |-> TRUE, labelIds |-> Undef]
      [] OTHER -> [threw |-> FALSE, labelIds |-> c[threadId].labelIds]

\* saveCachedThread without the return after the warning.
saveCachedThread_NoReturn(c, threadId, data) ==
    [cache |-> [c EXCEPT ![threadId] = Entry(data.labelIds, data.cachedAt)],
     warned |-> ~IsArray(data.labelIds), threw |-> FALSE]

\* saveCachedThread without its guard: whatever it is given is written.
saveCachedThread_NoGuard(c, threadId, data) ==
    [cache |-> [c EXCEPT ![threadId] = Entry(data.labelIds, data.cachedAt)],
     warned |-> FALSE, threw |-> FALSE]

\* saveCachedThread: refuses (with a warning) data whose labelIds is no array.
saveCachedThread(c, threadId, data) ==
    IF ~IsArray(data.labelIds)
    THEN [cache |-> c, warned |-> TRUE, threw |-> FALSE]
    ELSE [cache |-> [c EXCEPT ![threadId] = Entry(data.labelIds, data.cachedAt)],
          warned |-> FALSE, threw |-> FALSE]

\* The eventual version's intent as the README words it: every thread is stable.
isStableThread_AlwaysStable(labelIds) == TRUE

\* isStableThread, test version: a thread with at least one label is stable.
isStableThread(labelIds) == Len(labelIds) > 0


(* ----------------------- safeGetThread and p-limit --------------------- *)
\* One limit(async () => ...) task of phase 2, and the safeGetThread call in it.
NewTask(threadId) ==
    [id |-> threadId, st |-> "queued", retries |-> Retries, reqs |-> 0,
     delays |-> <<>>, status |-> 0, err |-> "none"]

Active(ts) == {i \in DOMAIN ts : ts[i].st \in {"request", "sleep"}}
Queued(ts) == {i \in DOMAIN ts : ts[i].st = "queued"}

\* p-limit letting one task too many through.
Dispatch_OneMore(ts) ==
    LET room == Concurrency + 1 - Cardinality(Active(ts))
        start == {i \in Queued(ts) :
                     Cardinality({j \in Queued(ts) : j < i}) < room}
    IN [i \in DOMAIN ts |->
           IF i \in start THEN [ts[i] EXCEPT !.st = "request", !.reqs = 1]
           ELSE ts[i]]

\* p-limit: queued tasks start, in order, while fewer than Concurrency run; a
\* task that starts issues its first threads.get request.
Dispatch(ts) ==
    LET room == Concurrency - Cardinality(Active(ts))
        start == {i \in Queued(ts) :
                     Cardinality({j \in Queued(ts) : j < i}) < room}
    IN [i \in DOMAIN ts |->
           IF i \in start THEN [ts[i] EXCEPT !.st = "request", !.reqs = 1]
           ELSE ts[i]]

\* safeGetThread's catch retrying while retries >= 0.
safeGetThreadCatch_OneMore(t, status) ==
    IF t.retries >= 0 /\ status = RateLimited
    THEN [t EXCEPT !.st = "sleep", !.status = status,
                   !.delays = Append(@, DelayUnit * (DelayBase - t.retries))]
    ELSE [t EXCEPT !.st = "failed", !.status = status, !.err = "HttpError"]

\* safeGetThread's catch retrying whatever the status of the error.
safeGetThreadCatch_AnyStatus(t, status) ==
    IF t.retries > 0
    THEN [t EXCEPT !.st = "sleep", !.status = status,
                   !.delays = Append(@, DelayUnit * (DelayBase - t.retries))]
    ELSE [t EXCEPT !.st = "failed", !.status = status, !.err = "HttpError"]

\* safeGetThread's catch: a 429 with budget left waits 1000 * (4 - retries) ms
\* and calls itself with retries - 1; anything else is thrown.  The delay
\* recorded in the task stands for the "Rate limit hit" warning as well.
safeGetThreadCatch(t, status) ==
    IF t.retries > 0 /\ status = RateLimited
    THEN [t EXCEPT !.st = "sleep", !.status = status,
                   !.delays = Append(@, DelayUnit * (DelayBase - t.retries))]
    ELSE [t EXCEPT !.st = "failed", !.status = status, !.err = "HttpError"]

\* The recursive call passing its own budget on.
safeGetThreadRetry_SameBudget(t) ==
    [t EXCEPT !.st = "request", !.reqs = @ + 1]

\* The recursive call once the delay has passed: a new request.
safeGetThreadRetry(t) ==
    [t EXCEPT !.st = "request", !.retries = @ - 1, !.reqs = @ + 1]

\* safeGetThread's try: the response is returned whatever its labels are; missing
\* or empty labels are only warned about.
safeGetThreadWarns(labelIds) == ~IsArray(labelIds) \/ Len(labelIds.items) = 0

(* ------------------------------ phase 1 ------------------------------- *)
\* Phase 1's callback with a catch that only counts the thread as invalid.
ScanStep_CatchDrops(acc, threadId, inboxThreadIds) ==
    LET r == getCachedThread(acc.cache, threadId) IN
    IF r.threw
    THEN [acc EXCEPT !.invalidOrMissing = @ + 1]
    ELSE IF IsArray(r.labelIds)
    THEN IF threadId \notin inboxThreadIds
         THEN [acc EXCEPT !.cache[threadId] = NoFile]
         ELSE IF isStableThread(r.labelIds.items)
         THEN [acc EXCEPT !.labelResults =
                              Append(@, [id |-> threadId, field |-> "labelIds",
                                         labels |-> r.labelIds.items,
                                         fromCache |-> TRUE]),
                          !.validCached = @ + 1]
         ELSE [acc EXCEPT !.toFetch = Append(@, threadId)]
    ELSE [acc EXCEPT !.toFetch = Append(@, threadId), !.invalidOrMissing = @ + 1]

\* Phase 1's callback fetching a thread it has taken from the cache as well.
ScanStep_RefetchTrusted(acc, threadId, inboxThreadIds) ==
    LET r == getCachedThread(acc.cache, threadId) IN
    IF r.threw
    THEN [acc EXCEPT !.toFetch = Append(@, threadId), !.invalidOrMissing = @ + 1]
    ELSE IF IsArray(r.labelIds)
    THEN IF threadId \notin inboxThreadIds
         THEN [acc EXCEPT !.cache[threadId] = NoFile]
         ELSE IF isStableThread(r.labelIds.items)
         THEN [acc EXCEPT !.labelResults =
                              Append(@, [id |-> threadId, field |-> "labelIds",
                                         labels |-> r.labelIds.items,
                                         fromCache |-> TRUE]),
                          !.validCached = @ + 1,
                          !.toFetch = Append(@, threadId)]
         ELSE [acc EXCEPT !.toFetch = Append(@, threadId)]
    ELSE [acc EXCEPT !.toFetch = Append(@, threadId), !.invalidOrMissing = @ + 1]

\* Phase 1's callback removing the cache file of a thread it does not trust.
ScanStep_EvictUntrusted(acc, threadId, inboxThreadIds) ==
    LET r == getCachedThread(acc.cache, threadId) IN
    IF r.threw
    THEN [acc EXCEPT !.toFetch = Append(@, threadId), !.invalidOrMissing = @ + 1]
    ELSE IF IsArray(r.labelIds)
    THEN IF threadId \notin inboxThreadIds
         THEN [acc EXCEPT !.cache[threadId] = NoFile]
         ELSE IF isStableThread(r.labelIds.items)
         THEN [acc EXCEPT !.labelResults =
                              Append(@, [id |-> threadId, field |-> "labelIds",
                                         labels |-> r.labelIds.items,
                                         fromCache |-> TRUE]),
                          !.validCached = @ + 1]
         ELSE [acc EXCEPT !.toFetch = Append(@, threadId),
                          !.cache[threadId] = NoFile]
    ELSE [acc EXCEPT !.toFetch = Append(@, threadId), !.invalidOrMissing = @ + 1]

\* The body of phase 1's callback for one thread of the working set.  It logs
\* nothing: acc.warns, the warnings of the scan, stays as it is.
ScanStep(acc, threadId, inboxThreadIds) ==
    LET r == getCachedThread(acc.cache, threadId) IN
    IF r.threw
    THEN [acc EXCEPT !.toFetch = Append(@, threadId), !.invalidOrMissing = @ + 1]
    ELSE IF IsArray(r.labelIds)
    THEN IF threadId \notin inboxThreadIds
         THEN [acc EXCEPT !.cache[threadId] = NoFile]
         ELSE IF isStableThread(r.labelIds.items)
         THEN [acc EXCEPT !.labelResults =
                              Append(@, [id |-> threadId, field |-> "labelIds",
                                         labels |-> r.labelIds.items,
                                         fromCache |-> TRUE]),
                          !.validCached = @ + 1]
         ELSE [acc EXCEPT !.toFetch = Append(@, threadId)]
    ELSE [acc EXCEPT !.toFetch = Append(@, threadId), !.invalidOrMissing = @ + 1]

RECURSIVE Scan(_, _, _)
Scan(acc, ths, i) ==
    IF i > Len(ths) THEN acc
    ELSE Scan(ScanStep(acc, ths[i], Range(ths)), ths, i + 1)

(* ------------------------------ phase 3 ------------------------------- *)
\* labelCounts[label] = (labelCounts[label] || 0) + 1; a new key goes last.
AddLabel(counts, label) ==
    IF \E i \in DOMAIN counts : counts[i].label = label
    THEN [i \in DOMAIN counts |->
             IF counts[i].label = label
             THEN [counts[i] EXCEPT !.count = @ + 1] ELSE counts[i]]
    ELSE Append(counts, [label |-> label, count |-> 1])

RECURSIVE CountThread(_, _, _)
CountThread(counts, labels, j) ==
    IF j > Len(labels) THEN counts
    ELSE CountThread(IF labels[j] # "INBOX" THEN AddLabel(counts, labels[j])
                     ELSE counts,
                     labels, j + 1)

RECURSIVE CountLabels(_, _, _, _)
CountLabels(acc, results, inboxThreadIds, i) ==
    IF i > Len(results) THEN acc
    ELSE LET t == results[i] IN
         IF t.id \notin inboxThreadIds
         THEN CountLabels(acc, results, inboxThreadIds, i + 1)
         ELSE CountLabels(
                  [labelCounts |-> CountThread(acc.labelCounts, t.labels, 1),
                   usedCache |-> acc.usedCache + (IF t.fromCache THEN 1 ELSE 0),
                   usedApi |-> acc.usedApi + (IF t.fromCache THEN 0 ELSE 1)],
                  results, inboxThreadIds, i + 1)

\* The Label Count Table as a set of <<key, count>> pairs.
Table(counts) == {<<counts[i].label, counts[i].count>> : i \in DOMAIN counts}

(* ------------------------------- report ------------------------------- *)
\* The order localeCompare gives the names in use ('' for a missing name).
NameRank(name) ==
    CASE name = Undefined -> 0
      [] name = "Home" -> 1
      [] name = "INBOX" -> 2
      [] name = "Work" -> 3
      [] OTHER -> 4

SortKey(names, e) == NameRank(Lookup(names, e.label))

\* Array.prototype.sort is stable: equal names keep their insertion order.
RECURSIVE SortEntries(_, _, _)
SortEntries(names, counts, i) ==
    IF i = 0 THEN <<>>
    ELSE LET sorted == SortEntries(names, counts, i - 1)
             e == counts[i]
             p == Cardinality({k \in DOMAIN sorted :
                                  SortKey(names, sorted[k]) <= SortKey(names, e)})
         IN SubSeq(sorted, 1, p) \o <<e>> \o SubSeq(sorted, p + 1, Len(sorted))

\* One table line: the name, or the placeholder holding the key.
Row(names, e) ==
    [kind |-> "row", label |-> e.label, name |-> Lookup(names, e.label),
     placeholder |-> Lookup(names, e.label) = Undefined, count |-> e.count]
Header == [kind |-> "header", label |-> "", name |-> "", placeholder |-> FALSE,
           count |-> 0]
Summary(kind) == [kind |-> kind, label |-> "", name |-> "",
                   placeholder |-> FALSE, count |-> 0]

ReportLines(names, counts) ==
    LET sorted == SortEntries(names, counts, Len(counts))
    IN <<Header>> \o [i \in DOMAIN sorted |-> Row(names, sorted[i])]

\* One call of the comparator: it is logged, and its sign is that of
\* nameA.localeCompare(nameB).
CallCompare(names, s, x, y) ==
    [a |-> s.a, log |-> Append(s.log, <<x.label, y.label>>),
     order |-> SortKey(names, x) - SortKey(names, y)]

\* The sort of Node's engine on an array of fewer than 64 entries: the run at
\* the head of the array is found by comparing neighbours (and reversed when it
\* descends), the remaining entries are placed by binary insertion.
RECURSIVE CountRun(_, _, _, _, _)
CountRun(names, s, idx, descending, runLength) ==
    IF idx > Len(s.a) THEN [s EXCEPT !.order = runLength]
    ELSE LET c == CallCompare(names, s, s.a[idx], s.a[idx - 1]) IN
         IF (descending /\ c.order >= 0) \/ (~descending /\ c.order < 0)
         THEN [c EXCEPT !.order = runLength]
         ELSE CountRun(names, c, idx + 1, descending, runLength + 1)

CountAndMakeRun(names, s) ==
    LET c == CallCompare(names, s, s.a[2], s.a[1])
        r == CountRun(names, c, 3, c.order < 0, 2)
        n == r.order
    IN IF c.order < 0
       THEN [r EXCEPT !.a = [i \in DOMAIN r.a |->
                                IF i <= n THEN r.a[n + 1 - i] ELSE r.a[i]]]
       ELSE r

\* The binary search for the place of pivot among the left..right-1 first
\* entries (counted from 0); order carries the place found.
RECURSIVE BinarySearch(_, _, _, _, _)
BinarySearch(names, s, pivot, left, right) ==
    IF left >= right THEN [s EXCEPT !.order = left]
    ELSE LET mid == left + ((right - left) \div 2)
             c == CallCompare(names, s, pivot, s.a[mid + 1])
         IN IF c.order < 0 THEN BinarySearch(names, c, pivot, left, mid)
            ELSE BinarySearch(names, c, pivot, mid + 1, right)

RECURSIVE BinaryInsertionSort(_, _, _)
BinaryInsertionSort(names, s, start) ==
    IF start >= Len(s.a) THEN s
    ELSE LET pivot == s.a[start + 1]
             b == BinarySearch(names, s, pivot, 0, start)
             left == b.order
             moved == [i \in DOMAIN b.a |->
                          IF i <= left THEN b.a[i]
                          ELSE IF i = left + 1 THEN pivot
                          ELSE IF i <= start + 1 THEN b.a[i - 1]
                          ELSE b.a[i]]
         IN BinaryInsertionSort(names, [b EXCEPT !.a = moved], start + 1)

\* Object.entries(labelCounts).sort(comparator): the sorted entries and the
\* comparator calls made, in order.  An array of fewer than 2 entries is
\* returned without a call.
SortWithLog(names, counts) ==
    LET s0 == [a |-> counts, log |-> <<>>, order |-> 0] IN
    IF Len(counts) < 2 THEN s0
    ELSE LET r == CountAndMakeRun(names, s0)
         IN BinaryInsertionSort(names, r, r.order)

\* A key of the table without a truthy labelIdToName[key].
MissingName(names, key) == Lookup(names, key) = Undefined

MissingNameWarning(key) == [kind |-> "missingName", key |-> key]

\* The comparator's console.warn calls: one for each argument of each call
\* that has no name.
RECURSIVE ComparatorWarns(_, _, _, _)
ComparatorWarns(names, log, bag, i) ==
    IF i > Len(log) THEN bag
    ELSE LET wa == IF MissingName(names, log[i][1])
                   THEN AddWarn(bag, MissingNameWarning(log[i][1])) ELSE bag
             wb == IF MissingName(names, log[i][2])
                   THEN AddWarn(wa, MissingNameWarning(log[i][2])) ELSE wa
         IN ComparatorWarns(names, log, wb, i + 1)


(* --------------------------- the state machine ------------------------ *)
NoCounters == [validCached |-> 0, invalidOrMissing |-> 0, fetched |-> 0,
               usedCache |-> 0, usedApi |-> 0]
NoHist == [scanned |-> FALSE, counted |-> FALSE, prevDone |-> FALSE,
           prevTable |-> {}, cache0 |-> <<>>,
           idsFile0 |-> IdsAbsent, scanWarns |-> NoWarns]

\* threads.get requests issued by the tasks of this run.
FetchCalls(ts) == SumOver([i \in DOMAIN ts |-> ts[i].reqs], DOMAIN ts)

\* Error responses threads.get has given in this run.
Faults(ts) ==
    SumOver([i \in DOMAIN ts |->
                Len(ts[i].delays) + (IF ts[i].err = "HttpError" THEN 1 ELSE 0)],
            DOMAIN ts)

\* The remote inbox lists no thread twice: the orderings of the subsets of ids.
RemoteInboxLists(ids) ==
    {l \in SeqsUpTo(ids, Cardinality(ids)) :
        \A i, j \in DOMAIN l : l[i] = l[j] => i = j}

\* The program starts on whatever an earlier use left in .cache: any file for
\* each thread of ids, and no thread-ID list, an unusable one or one of lists.
InitOver(ids, lists) ==
    /\ idsFile \in {IdsAbsent, IdsMalformed, IdsNull, IdsObject}
                       \cup {IdsArray(l) : l \in lists}
    /\ cache \in [ids -> InitialFiles]
    /\ remoteInbox = [known |-> FALSE, ids |-> <<>>]
    /\ remoteLabels = [t \in ids |-> Unknown]
    /\ remoteNames = [known |-> FALSE, map |-> NoBindings]
    /\ run = 0
    /\ pc = "idle"
    /\ labelIdToName = NoBindings
    /\ threads = <<>>
    /\ listed = <<>>
    /\ listCalls = 0
    /\ toFetch = <<>>
    /\ labelResults = <<>>
    /\ counters = NoCounters
    /\ tasks = <<>>
    /\ labelCounts = <<>>
    /\ out = <<>>
    /\ warns = NoWarns
    /\ query = 0
    /\ hist = NoHist

Init == InitOver(ThreadIds, InboxLists)

\* The same with one more thread, so that two fetches are in flight at once.
InitWide == InitOver(WideThreadIds, WideInboxLists)

\* A first run of the program: nothing is cached yet, and the remote inbox
\* holds more threads than the limiter lets through at once.
InitPool ==
    /\ idsFile = IdsAbsent
    /\ cache = [t \in 1..PoolSize |-> NoFile]
    /\ remoteInbox = [known |-> TRUE, ids |-> [i \in 1..PoolSize |-> i]]
    /\ remoteLabels = [t \in 1..PoolSize |-> Arr(<<"INBOX", "L_A">>)]
    /\ remoteNames \in {[known |-> TRUE, map |-> b] : b \in NameBindings}
    /\ run = 0
    /\ pc = "idle"
    /\ labelIdToName = NoBindings
    /\ threads = <<>>
    /\ listed = <<>>
    /\ listCalls = 0
    /\ toFetch = <<>>
    /\ labelResults = <<>>
    /\ counters = NoCounters
    /\ tasks = <<>>
    /\ labelCounts = <<>>
    /\ out = <<>>
    /\ warns = NoWarns
    /\ query = 0
    /\ hist = NoHist

\* The process of a run is over: it finished, it was killed by the unhandled
\* rejection, or it aborted and nothing is left in flight.
RunEnded ==
    \/ pc \in {"done", "exited"}
    \/ pc = "aborted" /\ Active(tasks) = {}

\* node gmail-label-counts.js: authorize calls listInboxLabelCounts, which
\* requests the label list.
StartRun ==
    /\ pc = "idle" \/ RunEnded
    /\ run < MaxRuns
    /\ run' = run + 1
    /\ pc' = "labels"
    /\ labelIdToName' = NoBindings
    /\ threads' = <<>>
    /\ listed' = <<>>
    /\ listCalls' = 0
    /\ toFetch' = <<>>
    /\ labelResults' = <<>>
    /\ counters' = NoCounters
    /\ tasks' = <<>>
    /\ labelCounts' = <<>>
    /\ out' = <<>>
    /\ warns' = NoWarns
    /\ query' = 0
    /\ hist' = [scanned |-> FALSE, counted |-> FALSE, prevDone |-> pc = "done",
                prevTable |-> Table(labelCounts), cache0 |-> cache,
                idsFile0 |-> idsFile, scanWarns |-> NoWarns]
    /\ UNCHANGED <<disk, remote>>

\* An awaited remote call rejects outside phase 2: listInboxLabelCounts rejects.
Abort ==
    /\ pc' = "aborted"
    /\ UNCHANGED <<disk, remote, run, labelIdToName, threads, listed, listCalls,
                   toFetch, labelResults, counters, tasks, labelCounts, out,
                   warns, query, hist>>

\* loadLabelMaps: the labels with an id and a name.
loadLabelMaps(names) == names

\* getInboxThreads up to its first await, given the labels.
LabelsLoaded(names) ==
    LET r == getCachedInboxThreadIds(idsFile) IN
    /\ labelIdToName' = loadLabelMaps(names)
    /\ remoteNames' = [known |-> TRUE, map |-> names]
    /\ warns' = IF r.warned THEN AddWarn(warns, Warning("idsCacheLoad", 0))
                ELSE warns
    /\ IF r.value.tag = "null"
       THEN /\ pc' = "list"
            /\ listCalls' = 1
            /\ threads' = threads
       ELSE IF r.value.tag = "array"
       THEN /\ pc' = "scan"
            /\ threads' = r.value.ids
            /\ listCalls' = listCalls
       ELSE /\ pc' = "aborted"
            /\ UNCHANGED <<threads, listCalls>>
    /\ UNCHANGED <<disk, remoteInbox, remoteLabels, run, listed, toFetch,
                   labelResults, counters, tasks, labelCounts, out, query, hist>>

LoadLabels ==
    /\ pc = "labels"
    /\ \/ \E names \in IF remoteNames.known THEN {remoteNames.map}
                        ELSE NameBindings : LabelsLoaded(names)
       \/ Abort

\* A page that carries no continuation token.
nextPageToken_None(got, inbox) == FALSE

\* res.data.nextPageToken: the remote gives one while threads are left to list.
nextPageToken(got, inbox) == Len(got) < Len(inbox)

\* One page of threads.list for label:inbox; the last page saves the list.
ListPage ==
    /\ pc = "list"
    /\ \/ \E inbox \in IF remoteInbox.known THEN {remoteInbox.ids}
                        ELSE RemoteInboxLists(DOMAIN cache) :
            LET got == listed \o SubSeq(inbox, Len(listed) + 1,
                                        Min(Len(listed) + PageSize, Len(inbox)))
            IN /\ remoteInbox' = [known |-> TRUE, ids |-> inbox]
               /\ listed' = got
               /\ IF nextPageToken(got, inbox)
                  THEN /\ listCalls' = listCalls + 1
                       /\ UNCHANGED <<pc, idsFile, threads>>
                  ELSE /\ idsFile' = saveCachedInboxThreadIds(got)
                       /\ threads' = got
                       /\ pc' = "scan"
                       /\ listCalls' = listCalls
               /\ UNCHANGED <<cache, remoteLabels, remoteNames, run,
                              labelIdToName, toFetch, labelResults, counters,
                              tasks, labelCounts, out, warns, query, hist>>
       \/ Abort

\* Phase 1, then phase 2 up to its await: every needs-fetch thread is handed to
\* the limiter.
Phase1 ==
    /\ pc = "scan"
    /\ LET acc == Scan([cache |-> cache, toFetch |-> <<>>, labelResults |-> <<>>,
                        validCached |-> 0, invalidOrMissing |-> 0,
                        warns |-> NoWarns], threads, 1)
       IN /\ cache' = acc.cache
          /\ hist' = [hist EXCEPT !.scanned = TRUE, !.scanWarns = acc.warns]
          /\ toFetch' = acc.toFetch
          /\ labelResults' = acc.labelResults
          /\ counters' = [counters EXCEPT !.validCached = acc.validCached,
                              !.invalidOrMissing = acc.invalidOrMissing]
          /\ tasks' = Dispatch([i \in DOMAIN acc.toFetch |-> NewTask(acc.toFetch[i])])
    /\ pc' = "fetch"
    /\ UNCHANGED <<idsFile, remote, run, labelIdToName, threads, listed,
                   listCalls, labelCounts, out, warns, query>>


(* ------------------------------ phase 2 ------------------------------- *)
\* The task's code after safeGetThread returned `full`, whose first message
\* carries labelIds = v.
TaskBody(names, c, w, threadId, v, now) ==
    LET w1 == IF safeGetThreadWarns(v)
              THEN AddWarn(w, Warning("emptyLabels", threadId)) ELSE w
        labelIds == IF Truthy(v) THEN v ELSE Arr(<<>>)
        s == saveCachedThread(c, threadId,
                              [labelIds |-> labelIds, cachedAt |-> now])
        w2 == IF s.warned THEN AddWarn(w1, Warning("skipSave", threadId)) ELSE w1
    IN IF s.threw
       THEN [cache |-> s.cache, warns |-> w2, err |-> "SaveError", pushed |-> <<>>]
       ELSE IF ~IsArray(labelIds)
       THEN [cache |-> s.cache, warns |-> w2, err |-> "TypeError", pushed |-> <<>>]
       ELSE [cache |-> s.cache, warns |-> w2, err |-> "none",
             pushed |-> <<[id |-> threadId, field |-> "labelNames",
                           labels |-> [k \in DOMAIN labelIds.items |->
                                          Lookup(names, labelIds.items[k])],
                           fromCache |-> FALSE]>>]

\* Promise.allSettled in the place of Promise.all.
PromiseAll_Settled(ts) ==
    IF \A i \in DOMAIN ts : ts[i].st \in {"done", "failed"} THEN "fulfilled"
    ELSE "pending"

\* Promise.all over the tasks: rejected by the first task that fails, fulfilled
\* once every task has fulfilled.
PromiseAll(ts) ==
    IF \E i \in DOMAIN ts : ts[i].st = "failed" THEN "rejected"
    ELSE IF \A i \in DOMAIN ts : ts[i].st = "done" THEN "fulfilled"
    ELSE "pending"

\* The await of phase 2 throws when Promise.all rejects.
AfterSettle(ts) ==
    IF pc = "fetch" /\ PromiseAll(ts) = "rejected" THEN "aborted" ELSE pc

\* A task that has run to its end: safeGetThread's frame is gone with it.
Fulfilled(t) ==
    [t EXCEPT !.st = "done", !.retries = 0, !.reqs = 0, !.delays = <<>>,
              !.status = 200]

\* threads.get answers 200 for task i.
FetchOk(i) ==
    /\ pc \in {"fetch", "aborted"}
    /\ i \in DOMAIN tasks
    /\ tasks[i].st = "request"
    /\ \E v \in IF remoteLabels[tasks[i].id] = Unknown THEN RemoteLabelVals
                ELSE {remoteLabels[tasks[i].id]} :
          LET b == TaskBody(labelIdToName, cache, warns, tasks[i].id, v, run)
              failed == b.err # "none"
          IN /\ remoteLabels' = [remoteLabels EXCEPT ![tasks[i].id] = v]
             /\ cache' = b.cache
             /\ warns' = b.warns
             /\ labelResults' = labelResults \o b.pushed
             /\ counters' = [counters EXCEPT
                                !.fetched = @ + (IF failed THEN 0 ELSE 1)]
             /\ tasks' = Dispatch([tasks EXCEPT
                                      ![i] = IF failed
                                             THEN [@ EXCEPT !.st = "failed",
                                                            !.status = 200,
                                                            !.err = b.err]
                                             ELSE Fulfilled(@)])
             /\ pc' = AfterSettle(tasks')
    /\ UNCHANGED <<idsFile, remoteInbox, remoteNames, run, labelIdToName, threads,
                   listed, listCalls, toFetch, labelCounts, out, query, hist>>

\* threads.get fails for task i with a 429 or with another error.
FetchError(i) ==
    /\ pc \in {"fetch", "aborted"}
    /\ i \in DOMAIN tasks
    /\ tasks[i].st = "request"
    /\ Faults(tasks) < MaxFaults
    /\ \E status \in {RateLimited, 500} :
          LET t == safeGetThreadCatch(tasks[i], status) IN
          /\ tasks' = Dispatch([tasks EXCEPT ![i] = t])
          /\ pc' = AfterSettle(tasks')
    /\ UNCHANGED <<disk, remote, run, labelIdToName, threads, listed, listCalls,
                   toFetch, labelResults, counters, labelCounts, out, warns, query,
                   hist>>

\* The retry delay of task i has passed.
RetryTimer(i) ==
    /\ pc \in {"fetch", "aborted"}
    /\ i \in DOMAIN tasks
    /\ tasks[i].st = "sleep"
    /\ tasks' = [tasks EXCEPT ![i] = safeGetThreadRetry(tasks[i])]
    /\ UNCHANGED <<disk, remote, run, pc, labelIdToName, threads, listed,
                   listCalls, toFetch, labelResults, counters, labelCounts, out,
                   warns, query, hist>>

\* Phase 3 and the table, up to the await of the unread count.
Phase3 ==
    /\ pc = "fetch"
    /\ PromiseAll(tasks) = "fulfilled"
    /\ LET acc == CountLabels([labelCounts |-> <<>>, usedCache |-> 0, usedApi |-> 0],
                              labelResults, Range(threads), 1)
       IN /\ labelCounts' = acc.labelCounts
          /\ counters' = [counters EXCEPT !.usedCache = acc.usedCache,
                                          !.usedApi = acc.usedApi]
          /\ out' = out \o ReportLines(labelIdToName, acc.labelCounts)
          /\ warns' = ComparatorWarns(labelIdToName,
                                       SortWithLog(labelIdToName,
                                                   acc.labelCounts).log,
                                       warns, 1)
    /\ pc' = "unread"
    /\ query' = 1
    /\ hist' = [hist EXCEPT !.counted = TRUE]
    /\ UNCHANGED <<disk, remote, run, labelIdToName, threads, listed, listCalls,
                   toFetch, labelResults, tasks>>

\* One page of countThreadsMatchingQuery; after the last page the count is
\* printed (its value is not kept) and the next query, if any, is sent.
CountPage ==
    /\ pc \in {"unread", "untagged"}
    /\ \/ \E more \in BOOLEAN :
            /\ more => query < MaxPages
            /\ IF more
               THEN /\ query' = query + 1
                    /\ UNCHANGED <<pc, out>>
               ELSE /\ out' = Append(out, Summary(pc))
                    /\ pc' = IF pc = "unread" THEN "untagged" ELSE "done"
                    /\ query' = IF pc = "unread" THEN 1 ELSE 0
            /\ UNCHANGED <<disk, remote, run, labelIdToName, threads, listed,
                           listCalls, toFetch, labelResults, counters, tasks,
                           labelCounts, warns, hist>>
       \/ Abort

\* The rejection of listInboxLabelCounts is handled nowhere: the runtime ends
\* the process, other tasks may still be in flight.
ProcessExit ==
    /\ pc = "aborted"
    /\ pc' = "exited"
    /\ UNCHANGED <<disk, remote, run, labelIdToName, threads, listed, listCalls,
                   toFetch, labelResults, counters, tasks, labelCounts, out,
                   warns, query, hist>>

Next ==
    \/ StartRun
    \/ LoadLabels
    \/ ListPage
    \/ Phase1
    \/ \E i \in DOMAIN tasks : FetchOk(i)
    \/ \E i \in DOMAIN tasks : FetchError(i)
    \/ \E i \in DOMAIN tasks : RetryTimer(i)
    \/ Phase3
    \/ CountPage
    \/ ProcessExit

Spec == Init /\ [][Next]_vars

SpecWide == InitWide /\ [][Next]_vars

SpecPool == InitPool /\ [][Next]_vars


(* ============================== properties ============================ *)
\* Positions of listInboxLabelCounts after the table was computed.
Reported == pc \in {"unread", "untagged", "done"}

\* Tasks that have issued a threads.get request.
Started(ts) == {i \in DOMAIN ts : ts[i].st # "queued"}

\* The number of table entries under key k (0 or the count).
CountOf(counts, k) ==
    SumOver([i \in DOMAIN counts |-> IF counts[i].label = k THEN counts[i].count
                                     ELSE 0], DOMAIN counts)

\* C1 (as claimed): a second complete run after a complete first run computes
\* the same Label Count Table as the first and issues no threads.get request.
C1_Idempotent ==
    (run = 2 /\ hist.prevDone /\ pc = "done")
        => /\ Table(labelCounts) = hist.prevTable
           /\ Started(tasks) = {}

\* C2 (as claimed): once the table is computed its keys are Label Identifiers
\* and each label other than INBOX counts the working-set entries whose label
\* list (now in the cache) holds it; in the scenario of t1 cached with
\* [INBOX, L_A] and t2 fetched as [INBOX, L_B] the table is {L_A: 1, L_B: 1} and
\* t2 is cached with [INBOX, L_B].
C2_CountCorrect ==
    Reported =>
        /\ \A i \in DOMAIN labelCounts : labelCounts[i].label \in LabelIds \ {"INBOX"}
        /\ \A l \in LabelIds \ {"INBOX"} :
              CountOf(labelCounts, l) =
                  Cardinality({p \in DOMAIN threads :
                                  /\ IsArray(cache[threads[p]].labelIds)
                                  /\ l \in Range(cache[threads[p]].labelIds.items)})
        /\ ( /\ threads = <<1, 2>>
             /\ hist.cache0[1] = Entry(Arr(<<"INBOX", "L_A">>), 0)
             /\ hist.cache0[2] = NoFile
             /\ remoteLabels[2] = Arr(<<"INBOX", "L_B">>) )
               => /\ Table(labelCounts) = {<<"L_A", 1>>, <<"L_B", 1>>}
                  /\ cache[2].kind = "json"
                  /\ cache[2].labelIds = Arr(<<"INBOX", "L_B">>)

\* C3 (as claimed): when the table is computed, every cache entry that existed
\* at the start of the run for a thread outside the working set is gone, and no
\* result of such a thread was counted.
C3_StaleEvicted ==
    Reported =>
        \A t \in DOMAIN cache :
            (hist.cache0[t].kind # "absent" /\ t \notin Range(threads))
                => /\ cache[t].kind = "absent"
                   /\ \A i \in DOMAIN labelResults : labelResults[i].id # t


\* C4 (as claimed): a safeGetThread call that has received three 429s in a row
\* (three delays recorded, its third retry in flight) does not return a thread.
C4_ThreeRateLimitsFail ==
    [][\A i \in DOMAIN tasks :
          (i \in DOMAIN tasks' /\ tasks[i].st = "request"
             /\ Len(tasks[i].delays) = 3)
              => tasks'[i].st # "done"]_vars

\* C4 (amended): a safeGetThread call never schedules more than 3 retries and
\* its delays never decrease; a call that fails on a 429 has made the first
\* request and exactly 3 retries, after delays of 1000, 2000 and 3000 ms, and
\* its failure aborts the run, which prints nothing.
C4_FourRateLimitsFail ==
    \A i \in DOMAIN tasks :
        /\ Len(tasks[i].delays) <= 3
        /\ \A k \in 1..(Len(tasks[i].delays) - 1) :
              tasks[i].delays[k] <= tasks[i].delays[k + 1]
        /\ (tasks[i].st = "failed" /\ tasks[i].status = 429)
              => /\ tasks[i].reqs = 4
                 /\ tasks[i].delays = <<1000, 2000, 3000>>
                 /\ pc \in {"aborted", "exited"}
                 /\ out = <<>>

C4_Witness ==
    \E i \in DOMAIN tasks :
        /\ tasks[i].st = "failed"
        /\ tasks[i].status = 429
        /\ Len(tasks[i].delays) = 3
        /\ pc = "aborted"

\* Rejected cache writes of this run (the "Skipping cache save" warnings).
SkipSaves(bag) ==
    SumOver([w \in DOMAIN bag |-> IF w.kind = "skipSave" THEN bag[w] ELSE 0],
            DOMAIN bag)

\* C5: a step in which saveCachedThread is called with a labelIds that is no
\* array changes no file of the cache, and the call does not throw.
C5_RejectedSaveFrame ==
    [][SkipSaves(warns') > SkipSaves(warns)
          => /\ cache' = cache
             /\ idsFile' = idsFile
             /\ \A i \in DOMAIN tasks' : tasks'[i].err # "SaveError"]_vars

C5_Witness ==
    \E t \in DOMAIN cache :
        /\ WarnCount(warns, Warning("skipSave", t)) > 0
        /\ cache[t] = Entry(Arr(<<>>), 0)

\* C6 (as claimed): a task whose cache write was rejected (the remote labelIds
\* was no array) does not fail, so that the run is not aborted by it.
C6_RejectedSaveNoAbort ==
    \A i \in DOMAIN tasks :
        WarnCount(warns, Warning("skipSave", tasks[i].id)) > 0
            => ~(tasks[i].st = "failed" /\ tasks[i].err = "TypeError")


\* A cache file that exists and cannot be parsed or holds no labelIds array.
Unreadable(file) ==
    file.kind = "malformed" \/ (file.kind = "json" /\ ~IsArray(file.labelIds))

ScanWarned(t) == WarnCount(hist.scanWarns, Warning("cacheRead", t)) > 0

FetchedResult(t) ==
    \E i \in DOMAIN labelResults :
        labelResults[i].id = t /\ ~labelResults[i].fromCache

\* C7 (as claimed): once phase 1 has scanned the cache, every working-set thread
\* whose cache file was unreadable is in needs-fetch, a warning was logged for
\* it, and it was fetched remotely by the time the table is computed.
C7_UnreadableWarned ==
    hist.scanned =>
        \A p \in DOMAIN threads :
            Unreadable(hist.cache0[threads[p]])
                => /\ threads[p] \in Range(toFetch)
                   /\ ScanWarned(threads[p])
                   /\ Reported => FetchedResult(threads[p])

\* C7 (amended): once phase 1 has scanned the cache, every working-set thread
\* whose cache file was unreadable is in needs-fetch and not among the results
\* taken from the cache, the scan has logged no warning for it, and it was
\* fetched remotely by the time the table is computed.
C7_UnreadableIsMiss ==
    hist.scanned =>
        \A p \in DOMAIN threads :
            Unreadable(hist.cache0[threads[p]])
                => /\ threads[p] \in Range(toFetch)
                   /\ \A i \in DOMAIN labelResults :
                         labelResults[i].id = threads[p] => ~labelResults[i].fromCache
                   /\ ~ScanWarned(threads[p])
                   /\ Reported => FetchedResult(threads[p])

C7_Witness ==
    /\ pc = "done"
    /\ \E p \in DOMAIN threads :
          /\ hist.cache0[threads[p]].kind = "malformed"
          /\ threads[p] \in Range(toFetch)
          /\ FetchedResult(threads[p])
          /\ cache[threads[p]].kind = "json"

\* C8 (as claimed): while the thread-ID list file exists, no step rewrites it
\* or requests a page of the inbox.
C8_PresentIsFrozen ==
    [][idsFile.kind # "absent"
          => idsFile' = idsFile /\ listCalls' <= listCalls]_vars

\* C8 (amended): while the thread-ID list file exists and parses to a value
\* that is not null, no step rewrites it or requests a page of the inbox.
C8_UsableIsFrozen ==
    [][(idsFile.kind = "json" /\ idsFile.tag # "null")
          => idsFile' = idsFile /\ listCalls' <= listCalls]_vars

C8_Witness ==
    /\ run = 2
    /\ pc = "done"
    /\ remoteInbox.known
    /\ idsFile = IdsArray(<<>>)
    /\ listCalls = 0

HttpFailed(ts) ==
    \E i \in DOMAIN ts : ts[i].st = "failed" /\ ts[i].err = "HttpError"

LinesOf(kind) == {k \in DOMAIN out : out[k].kind = kind}

\* C9 (as claimed): in a run with a thread fetch that failed nothing is printed;
\* a run that has ended without one has printed the table and each of the two
\* summary lines once.
C9_ReportUnlessFetchFails ==
    /\ HttpFailed(tasks) => out = <<>>
    /\ (run >= 1 /\ RunEnded /\ ~HttpFailed(tasks))
          => /\ Cardinality(LinesOf("header")) = 1
             /\ Cardinality(LinesOf("unread")) = 1
             /\ Cardinality(LinesOf("untagged")) = 1

\* C9 (amended): in a run with a task that failed nothing is printed; whatever
\* is printed is printed after every fetch has fulfilled, the table first and at
\* most once, then the unread line, then the untagged line; a run that is done
\* has printed the table, one line per key of the Label Count Table, and each
\* of the two summary lines once.
C9_ReportOnlyWhenComplete ==
    /\ (\E i \in DOMAIN tasks : tasks[i].st = "failed") => out = <<>>
    /\ out # <<>>
          => /\ \A i \in DOMAIN tasks : tasks[i].st = "done"
             /\ counters.fetched = Len(toFetch)
             /\ out[1].kind = "header"
             /\ Cardinality(LinesOf("header")) = 1
             /\ Cardinality(LinesOf("row")) = Len(labelCounts)
             /\ \A k \in DOMAIN out : out[k].kind = "row" => k \in 2..(Len(labelCounts) + 1)
             /\ Cardinality(LinesOf("unread")) <= 1
             /\ Cardinality(LinesOf("untagged")) <= 1
             /\ \A k \in LinesOf("untagged") : k - 1 \in LinesOf("unread")
    /\ pc = "done"
          => /\ Len(out) = Len(labelCounts) + 3
             /\ out[Len(out) - 1].kind = "unread"
             /\ out[Len(out)].kind = "untagged"

C9_Witness ==
    /\ pc = "done"
    /\ toFetch # <<>>
    /\ counters.fetched = Len(toFetch)
    /\ labelCounts # <<>>
    /\ Len(out) = Len(labelCounts) + 3

\* C10: at most 3 fetch tasks are in flight at once, a task waiting for its
\* retry included, however many threads need a fetch.
C10_AtMostThreeInFlight == Cardinality(Active(tasks)) <= 3

C10_Witness ==
    /\ Cardinality(Active(tasks)) = 3
    /\ Queued(tasks) # {}
    /\ \E i \in Active(tasks) : tasks[i].st = "sleep"

FromCache(r) == r.fromCache

\* The results phase 3 would see had the fetches completed in toFetch order:
\* the cache results of phase 1, then one fetched result per needs-fetch thread.
InFetchOrder(results, fetchOrder) ==
    SelectSeq(results, FromCache)
        \o [i \in DOMAIN fetchOrder |->
               CHOOSE r \in Range(results) : ~r.fromCache /\ r.id = fetchOrder[i]]

\* C11 (as claimed): the Label Count Table and the printed table lines are what
\* they would be had the fetches completed in the order they were started;
\* the completion order of the concurrent fetches has no effect on them.
C11_OrderIndependent ==
    Reported =>
        LET canon == CountLabels([labelCounts |-> <<>>, usedCache |-> 0,
                                  usedApi |-> 0],
                                 InFetchOrder(labelResults, toFetch),
                                 Range(threads), 1).labelCounts
        IN /\ Table(labelCounts) = Table(canon)
           /\ SubSeq(out, 1, Len(labelCounts) + 1)
                  = ReportLines(labelIdToName, canon)

\* C12 (as claimed): once the report is rendered, every key of the Label Count
\* Table that has no name in labelIdToName has exactly one table line, which
\* shows the placeholder holding the key, and exactly one warning was emitted
\* for it.
C12_MissingNameWarnedOnce ==
    Reported =>
        \A i \in DOMAIN labelCounts :
            MissingName(labelIdToName, labelCounts[i].label)
                => /\ Cardinality({k \in DOMAIN out :
                                      /\ out[k].kind = "row"
                                      /\ out[k].label = labelCounts[i].label
                                      /\ out[k].placeholder}) = 1
                   /\ WarnCount(warns,
                                MissingNameWarning(labelCounts[i].label)) = 1

\* A result of phase 1 for thread t.
CachedResult(t) ==
    \E i \in DOMAIN labelResults : labelResults[i].id = t /\ labelResults[i].fromCache

C14_NoRetryOnOtherError ==
    \A i \in DOMAIN tasks :
        (tasks[i].status \notin {0, 200, RateLimited})
            => /\ tasks[i].st = "failed"
               /\ tasks[i].err = "HttpError"
               /\ tasks[i].reqs = Len(tasks[i].delays) + 1
               /\ tasks[i].retries = Retries - Len(tasks[i].delays)
               /\ pc \in {"aborted", "exited"}
               /\ out = <<>>

C14_Witness ==
    \E i \in DOMAIN tasks :
        /\ tasks[i].st = "failed"
        /\ tasks[i].status = 500
        /\ tasks[i].retries = 2
        /\ tasks[i].reqs = 2
        /\ tasks[i].delays = <<1000>>

\* The number of positions of the list s that hold x.
Occurrences(s, x) == Cardinality({i \in DOMAIN s : s[i] = x})

\* The number of results for thread t, taken from the cache or fetched.
ResultsFor(t, fromCache) ==
    Cardinality({i \in DOMAIN labelResults :
                    /\ labelResults[i].id = t
                    /\ labelResults[i].fromCache = fromCache})

\* A cache file phase 1 trusts: it parses, holds an array labelIds and the
\* Stability Predicate is true of that array.
Trusted(file) ==
    /\ file.kind = "json"
    /\ IsArray(file.labelIds)
    /\ isStableThread(file.labelIds.items)

\* C15: once phase 1 has scanned the cache, every entry of the working set is
\* in exactly one of cache-trusted and needs-fetch, and it is cache-trusted
\* exactly when its cache file was trusted; when the table is computed every
\* entry of the working set has been counted exactly once, from the cache or
\* from the API (usedCache + usedApi = size of the working set).
C15_PartitionAndCount ==
    /\ hist.scanned =>
          \A t \in Range(threads) :
              LET trusted == ResultsFor(t, TRUE)
                  fetch == Occurrences(toFetch, t)
              IN /\ trusted + fetch = Occurrences(threads, t)
                 /\ trusted = 0 \/ fetch = 0
                 /\ trusted > 0 <=> Trusted(hist.cache0[t])
    /\ Reported =>
          /\ \A t \in Range(threads) :
                ResultsFor(t, TRUE) + ResultsFor(t, FALSE)
                    = Occurrences(threads, t)
          /\ counters.usedCache + counters.usedApi = Len(threads)
          /\ counters.usedCache = counters.validCached
          /\ counters.usedApi = Len(toFetch)

C15_Witness ==
    /\ run = 2
    /\ pc = "done"
    /\ threads # <<>>
    /\ counters.usedCache = Len(threads)
    /\ \A p \in DOMAIN threads : cache[threads[p]].cachedAt = 1

\* C16: every per-thread cache file written by a run of the program (its
\* cachedAt is the time of a run) parses and holds a labelIds that is an array,
\* whatever the remote has answered.
C16_WrittenEntriesAreArrays ==
    \A t \in DOMAIN cache :
        cache[t].cachedAt > 0
            => /\ cache[t].kind = "json"
               /\ IsArray(cache[t].labelIds)
               /\ cache[t].cachedAt <= run

C16_Witness ==
    \E t \in DOMAIN hist.cache0 :
        /\ hist.cache0[t] = Entry(Str, 0)
        /\ cache[t].cachedAt = run
        /\ IsArray(cache[t].labelIds)
        /\ remoteLabels[t] = Undef

\* The pages threads.list needs for n threads: one at least, the last one
\* without a token.
PagesFor(n) == IF n = 0 THEN 1 ELSE (n + PageSize - 1) \div PageSize

\* C17: in a run that found no thread-ID list file and has requested the first
\* page of the inbox, the file stays absent while
\* pages are requested, the identifiers accumulated are those of the pages
\* received so far in page order, and the scan starts only after the page
\* without a token; the file then holds exactly the identifiers of all pages in
\* page order and the working set is that same list.
C17_EnumerateThenSave ==
    (run >= 1 /\ hist.idsFile0.kind = "absent" /\ listCalls >= 1) =>
        /\ idsFile.kind = "absent"
              => /\ pc \in {"list", "aborted", "exited"}
                 /\ threads = <<>>
                 /\ Len(listed) = (listCalls - 1) * PageSize
                 /\ remoteInbox.known
                       => /\ Len(listed) < Len(remoteInbox.ids) \/ listed = <<>>
                          /\ listed = SubSeq(remoteInbox.ids, 1, Len(listed))
        /\ idsFile.kind # "absent"
              => /\ pc # "list"
                 /\ remoteInbox.known
                 /\ idsFile = IdsArray(remoteInbox.ids)
                 /\ threads = remoteInbox.ids
                 /\ listCalls = PagesFor(Len(remoteInbox.ids))

C17_Witness ==
    /\ hist.idsFile0.kind = "absent"
    /\ pc = "fetch"
    /\ listCalls >= 3
    /\ Len(threads) >= 3
    /\ idsFile = IdsArray(threads)
    /\ threads = remoteInbox.ids

\* C18: every step leaves each safeGetThread call with at most 4 requests made
\* (the first and at most 3 retries), one request per wait plus the first, and
\* with waits of 1000, 2000 and 3000 ms in that order; the answer to the 4th
\* request ends the call (it returns or raises), and a call that has returned
\* or raised makes no further step.
C18_BoundedFetch ==
    [][\A i \in DOMAIN tasks' :
          LET t == tasks'[i] IN
          /\ t.reqs <= 4
          /\ t.delays = SubSeq(<<1000, 2000, 3000>>, 1, Len(t.delays))
          /\ t.st \in {"request", "failed"} => t.reqs = Len(t.delays) + 1
          /\ t.st = "sleep" => t.reqs = Len(t.delays)
          /\ (i \in DOMAIN tasks /\ run' = run)
                => /\ tasks[i].st \in {"done", "failed"} => t = tasks[i]
                   /\ (tasks[i].st = "request" /\ tasks[i].reqs = 4
                          /\ t # tasks[i])
                         => t.st \in {"done", "failed"}]_vars

C18_Witness ==
    \E i \in DOMAIN tasks :
        /\ tasks[i].st = "request"
        /\ tasks[i].reqs = 4
        /\ tasks[i].retries = 0
        /\ tasks[i].delays = <<1000, 2000, 3000>>

\* C19 (as claimed): when the table is computed, no count in it exceeds the
\* number of distinct Thread Identifiers of the working set.
C19_NoOverCount ==
    Reported =>
        \A i \in DOMAIN labelCounts :
            labelCounts[i].count <= Cardinality(Range(threads))

\* C20: a step that changes a per-thread cache file is the return of the fetch
\* of that thread in a task of the running run, aborted or not: the thread is
\* in needs-fetch and was not taken from the cache, and the file now holds what
\* the fetch returned, stamped with the time of this run.  No other step
\* changes a file: the files of the cache-trusted threads and of the threads
\* outside needs-fetch keep their labelIds and cachedAt.
C20_CacheFrame ==
    [][\A t \in DOMAIN cache :
          cache'[t] # cache[t]
              => /\ run' = run
                 /\ t \in Range(toFetch)
                 /\ ~CachedResult(t)
                 /\ \E i \in DOMAIN tasks :
                       /\ tasks[i].id = t
                       /\ tasks[i].st = "request"
                       /\ tasks'[i].st = "done"
                 /\ cache'[t] = Entry(IF Truthy(remoteLabels'[t])
                                      THEN remoteLabels'[t] ELSE Arr(<<>>),
                                      run)]_vars

C20_Witness ==
    /\ run = 2
    /\ pc = "aborted"
    /\ HttpFailed(tasks)
    /\ \E t \in Range(toFetch) :
          /\ cache[t] = hist.cache0[t]
          /\ cache[t].cachedAt = 1

====
